---- MODULE Spec2Model ----
(***************************************************************************)
(* curtin/commands/apply_net.py: applying a network configuration to a     *)
(* target root and reconciling the legacy files shipped by the image.      *)
(*                                                                         *)
(* Text (file contents, paths, arguments) is a sequence of symbols.  A     *)
(* symbol is a line break, a blank, the comment marker, the path           *)
(* separator, or a chunk of other characters that neither starts nor ends  *)
(* with one of those.                                                      *)
(***************************************************************************)
EXTENDS Integers, Sequences, FiniteSets, TLC

VARIABLES fs, ioerr, pre, last

vars == <<fs, ioerr, pre, last>>

(* ------------------------------ bounds -------------------------------- *)

\* longest legacy file (in symbols) the image may ship
MaxFileLen == 6
\* how many file operations of the target may be failing
MaxFaults == 1
\* how far around the threshold the probed ifupdown versions range
MaxVerDelta == 1

(* ------------------------------- text --------------------------------- *)

NL == "\n"
SP == " "
HASH == "#"
SEP == "/"

StrsUpTo(S, n) == UNION {[1..k -> S] : k \in 0..n}

\* str.startswith of a one-character prefix
StartsWith(s, c) == Len(s) > 0 /\ s[1] = c

RECURSIVE LStrip(_)
LStrip(s) == IF s # <<>> /\ Head(s) \in {SP, NL} THEN LStrip(Tail(s)) ELSE s

RECURSIVE RStrip(_)
RStrip(s) ==
    IF s # <<>> /\ s[Len(s)] \in {SP, NL} THEN RStrip(SubSeq(s, 1, Len(s) - 1)) ELSE s

\* str.strip
Strip(s) == RStrip(LStrip(s))

\* str.splitlines: a final line break opens no further line
RECURSIVE SplitLines(_)
SplitLines(s) ==
    IF s = <<>> THEN <<>>
    ELSE IF \E i \in 1..Len(s) : s[i] = NL
         THEN LET i == CHOOSE k \in 1..Len(s) :
                           s[k] = NL /\ \A j \in 1..(k - 1) : s[j] # NL
              IN  <<SubSeq(s, 1, i - 1)>> \o SplitLines(SubSeq(s, i + 1, Len(s)))
         ELSE <<s>>

\* '\n'.join
RECURSIVE JoinLines(_)
JoinLines(ls) ==
    IF ls = <<>> THEN <<>>
    ELSE IF Len(ls) = 1 THEN ls[1]
         ELSE ls[1] \o <<NL>> \o JoinLines(Tail(ls))

RECURSIVE SelectNonComment(_)
SelectNonComment(ls) ==
    IF ls = <<>> THEN <<>>
    ELSE IF StartsWith(Head(ls), HASH) THEN SelectNonComment(Tail(ls))
         ELSE <<Head(ls)>> \o SelectNonComment(Tail(ls))

StripEach(ls) == [i \in 1..Len(ls) |-> Strip(ls[i])]

\* [f.strip() for f in contents.splitlines() if not f.startswith("#")]
ContentLines(contents) == StripEach(SelectNonComment(SplitLines(contents)))

(* ------------------------------ paths --------------------------------- *)

\* os.path.sep.join([target, path])
PathJoin(target, path) == target \o <<SEP>> \o path

RECURSIVE Collapse(_)
Collapse(p) ==
    IF Len(p) < 2 THEN p
    ELSE IF p[1] = SEP /\ p[2] = SEP THEN Collapse(Tail(p))
         ELSE <<Head(p)>> \o Collapse(Tail(p))

\* os.path.normpath on the paths that occur here: runs of separators become
\* one, except that exactly two leading separators are kept
NormPath(p) ==
    IF Len(p) >= 2 /\ p[1] = SEP /\ p[2] = SEP /\ ~(Len(p) >= 3 /\ p[3] = SEP)
    THEN <<SEP>> \o Collapse(p)
    ELSE Collapse(p)

TARGET == <<SEP, "target">>

Eth0Path == <<"etc/network/interfaces.d/eth0.cfg">>
Ipv6Path == <<"etc/sysctl.d/10-ipv6-privacy.conf">>
PreHookFn == <<"etc/network/if-pre-up.d/mtuipv6">>
PostHookFn == <<"etc/network/if-up.d/mtuipv6">>

Eth0Cfg == NormPath(PathJoin(TARGET, Eth0Path))
Ipv6Cfg == NormPath(PathJoin(TARGET, Ipv6Path))
PreHookCfg == PathJoin(TARGET, PreHookFn)
PostHookCfg == PathJoin(TARGET, PostHookFn)

TargetFiles == {Eth0Cfg, Ipv6Cfg, PreHookCfg, PostHookCfg}

(* --------------------------- target files ----------------------------- *)

\* mode of a file written without a mode argument
DefaultMode == 420
\* mode=0o755 of the hook scripts
HookMode == 493

NoFile == [exists |-> FALSE, data |-> <<>>, mode |-> 0]
File(data, mode) == [exists |-> TRUE, data |-> data, mode |-> mode]

\* os.path.exists
Exists(f, p) == p \in DOMAIN f /\ f[p].exists

\* a call made by the running operation: the function, the path or argument
\* it was given, and whether it returned ("ok") or raised
Ev(fn, arg, res) == [fn |-> fn, arg |-> arg, res |-> res]

\* the running operation: the target's files, the calls made so far, the
\* exception being raised ("" when none) and the value last returned
World(f) == [fs |-> f, calls |-> <<>>, exc |-> "", val |-> <<>>]

Called(w, fn, arg) == [w EXCEPT !.calls = Append(@, Ev(fn, arg, "ok"))]
Raised(w, fn, arg, e) ==
    [w EXCEPT !.calls = Append(@, Ev(fn, arg, "raised")), !.exc = e]

\* util.load_file
LoadFile(w, errs, p) ==
    IF p \in errs.read \/ ~Exists(w.fs, p)
    THEN Raised(w, "load_file", p, "IOError")
    ELSE [Called(w, "load_file", p) EXCEPT !.val = w.fs[p].data]

\* util.del_file
DelFile(w, errs, p) ==
    IF p \in errs.del
    THEN Raised(w, "del_file", p, "OSError")
    ELSE [Called(w, "del_file", p) EXCEPT !.fs = [@ EXCEPT ![p] = NoFile]]

\* util.write_file
WriteFile(w, errs, p, content, mode) ==
    IF p \in errs.write
    THEN Raised(w, "write_file", p, "IOError")
    ELSE [Called(w, "write_file", p) EXCEPT !.fs = [@ EXCEPT ![p] = File(content, mode)]]

(* ----------------------- legacy reconciliation ------------------------ *)

Eth0KnownContents == <<<<"auto eth0">>, <<"iface eth0 inet dhcp">>>>

Ipv6KnownContents ==
    <<<<"net.ipv6.conf.all.use_tempaddr = 2">>,
      <<"net.ipv6.conf.default.use_tempaddr = 2">>>>

CurtinContents ==
    JoinLines(<<<<HASH, SP, "IPv6 Privacy Extensions (RFC 4941)">>,
                <<HASH, SP, "Disabled by curtin">>,
                <<HASH, SP, "net.ipv6.conf.all.use_tempaddr = 2">>,
                <<HASH, SP, "net.ipv6.conf.default.use_tempaddr = 2">>>>)

\* as _maybe_remove_legacy_eth0, but comparing only the first lines of the
\* file with the known contents (lines[:2] == known_contents)
MaybeRemoveLegacyEth0PrefixMatch(w, errs, target, path) ==
    LET cfg == NormPath(PathJoin(target, path))
        w0 == Called(Called(w, "_maybe_remove_legacy_eth0", path), "exists", cfg)
    IN  IF ~Exists(w.fs, cfg) THEN w0
        ELSE LET r == LoadFile(w0, errs, cfg)
                 lines == ContentLines(r.val)
             IN  IF r.exc # "" THEN [r EXCEPT !.exc = ""]
                 ELSE IF Len(lines) >= 2 /\ SubSeq(lines, 1, 2) = Eth0KnownContents
                      THEN [DelFile(r, errs, cfg) EXCEPT !.exc = ""]
                      ELSE r

\* _maybe_remove_legacy_eth0(target, path): every exception of the try block
\* is logged and the function returns
MaybeRemoveLegacyEth0(w, errs, target, path) ==
    LET cfg == NormPath(PathJoin(target, path))
        w0 == Called(Called(w, "_maybe_remove_legacy_eth0", path), "exists", cfg)
    IN  IF ~Exists(w.fs, cfg) THEN w0
        ELSE LET r == LoadFile(w0, errs, cfg)
             IN  IF r.exc # "" THEN [r EXCEPT !.exc = ""]
                 ELSE IF ContentLines(r.val) = Eth0KnownContents
                      THEN [DelFile(r, errs, cfg) EXCEPT !.exc = ""]
                      ELSE r

\* as _disable_ipv6_privacy_extensions, but the file is deleted and the
\* annotation is never written
DisableIpv6PrivacyExtensionsNoAnnotation(w, errs, target, path) ==
    LET w0 == Called(w, "_disable_ipv6_privacy_extensions", path)
        cfg == NormPath(PathJoin(target, path))
        w1 == Called(w0, "exists", cfg)
    IN  IF StartsWith(path, SEP) THEN [w0 EXCEPT !.exc = "ValueError"]
        ELSE IF ~Exists(w.fs, cfg) THEN w1
        ELSE LET r == LoadFile(w1, errs, cfg)
             IN  IF r.exc # "" THEN [r EXCEPT !.exc = ""]
                 ELSE IF ContentLines(r.val) = Ipv6KnownContents
                      THEN [DelFile(r, errs, cfg) EXCEPT !.exc = ""]
                      ELSE r

\* as _disable_ipv6_privacy_extensions, but the file is kept and the
\* annotation is appended to it
DisableIpv6PrivacyExtensionsAppend(w, errs, target, path) ==
    LET w0 == Called(w, "_disable_ipv6_privacy_extensions", path)
        cfg == NormPath(PathJoin(target, path))
        w1 == Called(w0, "exists", cfg)
    IN  IF StartsWith(path, SEP) THEN [w0 EXCEPT !.exc = "ValueError"]
        ELSE IF ~Exists(w.fs, cfg) THEN w1
        ELSE LET r == LoadFile(w1, errs, cfg)
             IN  IF r.exc # "" THEN [r EXCEPT !.exc = ""]
                 ELSE IF ContentLines(r.val) = Ipv6KnownContents
                      THEN [WriteFile(r, errs, cfg, r.val \o CurtinContents \o <<NL>>,
                                      DefaultMode) EXCEPT !.exc = ""]
                      ELSE r

\* as _disable_ipv6_privacy_extensions, but an exception of the try block is
\* raised to the caller
DisableIpv6PrivacyExtensionsPropagate(w, errs, target, path) ==
    LET w0 == Called(w, "_disable_ipv6_privacy_extensions", path)
        cfg == NormPath(PathJoin(target, path))
        w1 == Called(w0, "exists", cfg)
    IN  IF StartsWith(path, SEP) THEN [w0 EXCEPT !.exc = "ValueError"]
        ELSE IF ~Exists(w.fs, cfg) THEN w1
        ELSE LET r == LoadFile(w1, errs, cfg)
             IN  IF r.exc # "" THEN r
                 ELSE IF ContentLines(r.val) = Ipv6KnownContents
                      THEN LET d == DelFile(r, errs, cfg)
                           IN  IF d.exc # "" THEN d
                               ELSE WriteFile(d, errs, cfg, CurtinContents, DefaultMode)
                      ELSE r

\* _disable_ipv6_privacy_extensions(target, path)
DisableIpv6PrivacyExtensions(w, errs, target, path) ==
    LET w0 == Called(w, "_disable_ipv6_privacy_extensions", path)
        cfg == NormPath(PathJoin(target, path))
        w1 == Called(w0, "exists", cfg)
    IN  IF StartsWith(path, SEP) THEN [w0 EXCEPT !.exc = "ValueError"]
        ELSE IF ~Exists(w.fs, cfg) THEN w1
        ELSE LET r == LoadFile(w1, errs, cfg)
             IN  IF r.exc # "" THEN [r EXCEPT !.exc = ""]
                 ELSE IF ContentLines(r.val) = Ipv6KnownContents
                      THEN LET d == DelFile(r, errs, cfg)
                           IN  IF d.exc # "" THEN [d EXCEPT !.exc = ""]
                               ELSE [WriteFile(d, errs, cfg, CurtinContents, DefaultMode)
                                        EXCEPT !.exc = ""]
                      ELSE r

(* --------------------------- hook install ----------------------------- *)

IFUPDOWN_IPV6_MTU_PRE_HOOK ==
    <<HASH, "!/bin/sh -x", NL, HASH, SP, "injected by curtin installer", NL,
      "snapshot of the device and IPv6 MTU before the interface comes up", NL>>

IFUPDOWN_IPV6_MTU_POST_HOOK ==
    <<HASH, "!/bin/sh -x", NL, HASH, SP, "injected by curtin installer", NL,
      "raise the device MTU or restore the IPv6 MTU after the interface is up", NL>>

\* _patch_ifupdown_ipv6_mtu_hook(target): the first failing write raises
PatchIfupdownIpv6MtuHook(w, errs, target) ==
    LET w0 == Called(w, "_patch_ifupdown_ipv6_mtu_hook", target)
        a == WriteFile(w0, errs, PathJoin(target, PreHookFn),
                       IFUPDOWN_IPV6_MTU_PRE_HOOK, HookMode)
    IN  IF a.exc # "" THEN a
        ELSE WriteFile(a, errs, PathJoin(target, PostHookFn),
                       IFUPDOWN_IPV6_MTU_POST_HOOK, HookMode)

(* ------------------------ postup alias decision ----------------------- *)

\* an argument that may be None
None == [some |-> FALSE, val |-> <<>>]
Some(v) == [some |-> TRUE, val |-> v]
\* truth value of an optional string: None and "" are false
Truthy(x) == x.some /\ x.val # <<>>

\* ifupdown versions below 0.8.6 need the alias
IfupdownAliasVersion == 806

VersionKeys == {"semantic_version", "major", "minor", "micro"}

\* util.get_package_version('ifupdown', target): raises, returns None, or
\* returns a dict holding some of the version keys
GetPackageVersion(w, probe, target) ==
    IF probe.kind = "raise"
    THEN Raised(w, "get_package_version", target, "ProcessExecutionError")
    ELSE Called(w, "get_package_version", target)

\* as detect_postup_alias, but comparing with <= instead of <
DetectPostupAliasLeq(w, probe, target) ==
    LET w0 == Called(w, "detect_postup_alias", target)
        g == GetPackageVersion(w0, probe, target)
        no == [g EXCEPT !.exc = "", !.val = "False"]
    IN  IF g.exc # "" THEN no
        ELSE IF probe.kind = "none" THEN no
        ELSE IF ~(VersionKeys \subseteq probe.keys) THEN no
        ELSE IF probe.sem <= IfupdownAliasVersion THEN [g EXCEPT !.val = "True"]
        ELSE no

\* detect_postup_alias(target): val is "True" or "False"
DetectPostupAlias(w, probe, target) ==
    LET w0 == Called(w, "detect_postup_alias", target)
        g == GetPackageVersion(w0, probe, target)
        no == [g EXCEPT !.exc = "", !.val = "False"]
    IN  IF g.exc # "" THEN no
        ELSE IF probe.kind = "none" THEN no
        ELSE IF ~(VersionKeys \subseteq probe.keys) THEN no
        ELSE IF probe.sem < IfupdownAliasVersion THEN [g EXCEPT !.val = "True"]
        ELSE no

\* config.value_as_boolean
ValueAsBoolean(v) ==
    IF v \in {<<"0">>, <<"False">>, <<"false">>, <<"None">>, <<"none">>, <<>>}
    THEN "False" ELSE "True"

(* ------------------------------ apply_net ----------------------------- *)

\* net.network_state.from_state_file / net.parse_net_config
Resolve(w, ext, fn, src) ==
    IF ext.resolve = "raise" THEN Raised(w, fn, src, "Exception")
    ELSE Called(w, fn, src)

\* net.render_network_state(target, network_state, postup_alias)
RenderNetworkState(w, ext, postup_alias) ==
    IF ext.render = "raise"
    THEN Raised(w, "render_network_state", <<postup_alias>>, "Exception")
    ELSE Called(w, "render_network_state", <<postup_alias>>)

\* as apply_net, but without the check that a state or a config is given
ApplyNetNoInputCheck(w, errs, ext, target, network_state, network_config, postup_alias) ==
    LET w0 == Called(w, "apply_net", <<postup_alias>>)
    IN  IF ~target.some THEN [w0 EXCEPT !.exc = "Exception"]
        ELSE IF ~Truthy(network_state) /\ ~Truthy(network_config)
             THEN [w0 EXCEPT !.exc = "UnboundLocalError"]
        ELSE LET ns == IF Truthy(network_state)
                       THEN Resolve(w0, ext, "from_state_file", network_state.val)
                       ELSE Resolve(w0, ext, "parse_net_config", network_config.val)
             IN  IF ns.exc # "" THEN ns
                 ELSE LET rn == RenderNetworkState(ns, ext, postup_alias)
                      IN  IF rn.exc # "" THEN rn
                          ELSE LET e == MaybeRemoveLegacyEth0(rn, errs, target.val, Eth0Path)
                                   p == DisableIpv6PrivacyExtensions(e, errs, target.val,
                                                                     Ipv6Path)
                               IN  IF e.exc # "" THEN e
                                   ELSE IF p.exc # "" THEN p
                                   ELSE PatchIfupdownIpv6MtuHook(p, errs, target.val)

\* apply_net(target, network_state, network_config, postup_alias)
ApplyNet(w, errs, ext, target, network_state, network_config, postup_alias) ==
    LET w0 == Called(w, "apply_net", <<postup_alias>>)
    IN  IF ~network_state.some /\ ~network_config.some
        THEN [w0 EXCEPT !.exc = "Exception"]
        ELSE IF ~target.some THEN [w0 EXCEPT !.exc = "Exception"]
        ELSE IF ~Truthy(network_state) /\ ~Truthy(network_config)
             THEN [w0 EXCEPT !.exc = "UnboundLocalError"]
        ELSE LET ns == IF Truthy(network_state)
                       THEN Resolve(w0, ext, "from_state_file", network_state.val)
                       ELSE Resolve(w0, ext, "parse_net_config", network_config.val)
             IN  IF ns.exc # "" THEN ns
                 ELSE LET rn == RenderNetworkState(ns, ext, postup_alias)
                      IN  IF rn.exc # "" THEN rn
                          ELSE LET e == MaybeRemoveLegacyEth0(rn, errs, target.val, Eth0Path)
                                   p == DisableIpv6PrivacyExtensions(e, errs, target.val,
                                                                     Ipv6Path)
                               IN  IF e.exc # "" THEN e
                                   ELSE IF p.exc # "" THEN p
                                   ELSE PatchIfupdownIpv6MtuHook(p, errs, target.val)

Override(a, s) == IF a.some THEN a ELSE s

\* apply_net_main(args): state is what util.load_command_environment() gave;
\* the result holds the exit code and the exception apply_net raised
ApplyNetMain(w, errs, ext, probe, args, environ) ==
    LET state == [target |-> Override(args.target, environ.target),
                  network_state |-> Override(args.net_state, environ.network_state),
                  network_config |-> Override(args.net_config, environ.network_config)]
        w0 == Called(w, "apply_net_main", <<>>)
    IN  IF ~state.target.some
        THEN [w |-> w0, exit |-> 2, inner |-> ""]
        ELSE IF ~Truthy(state.network_config) /\ ~Truthy(state.network_state)
        THEN [w |-> w0, exit |-> 2, inner |-> ""]
        ELSE LET d == IF args.postup_alias.some
                      THEN [w0 EXCEPT !.val = ValueAsBoolean(args.postup_alias.val)]
                      ELSE DetectPostupAlias(w0, probe, state.target.val)
                 a == ApplyNet(d, errs, ext, state.target, state.network_state,
                               state.network_config, d.val)
             IN  [w |-> [a EXCEPT !.exc = ""], exit |-> 0, inner |-> a.exc]

(* ------------------------------- inputs ------------------------------- *)

\* the path argument of a reconcile call: relative, or starting with '/'
PathArgs(rel) == {rel, <<SEP>> \o rel}

SemVers ==
    (IfupdownAliasVersion - MaxVerDelta)..(IfupdownAliasVersion + MaxVerDelta)

KeySets == {VersionKeys} \cup {VersionKeys \ {k} : k \in {"semantic_version", "micro"}}

Probes ==
    {[kind |-> k, keys |-> {}, sem |-> 0] : k \in {"raise", "none"}}
    \cup {[kind |-> "dict", keys |-> K, sem |-> v] : K \in KeySets, v \in SemVers}

NoProbe == [kind |-> "unused", keys |-> {}, sem |-> 0]

Exts ==
    {[resolve |-> "ok", render |-> "ok"], [resolve |-> "raise", render |-> "ok"],
     [resolve |-> "ok", render |-> "raise"]}

Targets == {None, Some(TARGET)}
StateFiles == {None, Some(<<>>), Some(<<"/config/netstate.yml">>)}
ConfigFiles == {None, Some(<<"/config/maas_net.yml">>)}
PostupValues == {"None", "True", "False"}
PostupArgs == {None, Some(<<"true">>), Some(<<"false">>)}

Environs ==
    {[target |-> None, network_state |-> None, network_config |-> None],
     [target |-> Some(TARGET), network_state |-> None,
      network_config |-> Some(<<"/config/maas_net.yml">>)]}

Args ==
    [target : Targets, net_state : {None, Some(<<"/config/netstate.yml">>)},
     net_config : {None}, postup_alias : PostupArgs]

\* the failing file operations of a target: at most MaxFaults of them
Faults ==
    {e \in [read : SUBSET {Eth0Cfg, Ipv6Cfg}, del : SUBSET {Eth0Cfg, Ipv6Cfg},
            write : SUBSET {Ipv6Cfg, PreHookCfg, PostHookCfg}] :
        Cardinality(e.read) + Cardinality(e.del) + Cardinality(e.write) <= MaxFaults}

NoFaults == [read |-> {}, del |-> {}, write |-> {}]

\* every file of at most MaxFileLen symbols over line breaks, blanks, the
\* comment marker and the directives of the known contents
FilesOver(known) ==
    {File(d, DefaultMode) :
        d \in StrsUpTo({NL, SP, HASH} \cup {known[i][1] : i \in 1..Len(known)}, MaxFileLen)}

\* the files an image ships at a legacy path: none, the known contents, the
\* known contents below a comment line and with blanks around a directive, or
\* the known contents with the lines swapped
ImageFiles(known) ==
    {NoFile,
     File(JoinLines(known) \o <<NL>>, DefaultMode),
     File(<<HASH, SP, "shipped by the image", NL, SP>> \o known[1] \o <<SP, NL>>
              \o known[2] \o <<NL>>, DefaultMode),
     File(JoinLines(<<known[2], known[1]>>) \o <<NL>>, DefaultMode)}

(* ---------------------------- state machine --------------------------- *)

Fresh == [p \in TargetFiles |-> NoFile]

Start ==
    [op |-> "none", path |-> <<>>, neither |-> FALSE, override |-> "n/a",
     probe |-> NoProbe, detected |-> "n/a", exc |-> "", exit |-> -1, inner |-> "",
     calls |-> <<>>]

Init ==
    /\ \E e \in ImageFiles(Eth0KnownContents), p \in ImageFiles(Ipv6KnownContents) :
           fs = [Fresh EXCEPT ![Eth0Cfg] = e, ![Ipv6Cfg] = p]
    /\ ioerr \in Faults
    /\ pre = fs
    /\ last = Start

InitFiles ==
    /\ \/ \E e \in FilesOver(Eth0KnownContents) : fs = [Fresh EXCEPT ![Eth0Cfg] = e]
       \/ \E p \in FilesOver(Ipv6KnownContents) : fs = [Fresh EXCEPT ![Ipv6Cfg] = p]
    /\ ioerr = NoFaults
    /\ pre = fs
    /\ last = Start

\* what a finished operation leaves in last
Done(w, rec) == [rec EXCEPT !.exc = w.exc, !.calls = w.calls]

\* an operation starts when the caller is idle
Idle == last.op = "none"

ReconcileEth0 ==
    \E path \in PathArgs(Eth0Path) :
        LET w == MaybeRemoveLegacyEth0(World(fs), ioerr, TARGET, path)
        IN  /\ Idle
            /\ fs' = w.fs
            /\ pre' = fs
            /\ last' = Done(w, [Start EXCEPT !.op = "_maybe_remove_legacy_eth0",
                                             !.path = path])
            /\ UNCHANGED ioerr

ReconcileIpv6 ==
    \E path \in PathArgs(Ipv6Path) :
        LET w == DisableIpv6PrivacyExtensions(World(fs), ioerr, TARGET, path)
        IN  /\ Idle
            /\ fs' = w.fs
            /\ pre' = fs
            /\ last' = Done(w, [Start EXCEPT !.op = "_disable_ipv6_privacy_extensions",
                                             !.path = path])
            /\ UNCHANGED ioerr

\* the two reconcile calls with their default path argument
ReconcileEth0Default ==
    LET w == MaybeRemoveLegacyEth0(World(fs), ioerr, TARGET, Eth0Path)
    IN  /\ Idle
        /\ fs' = w.fs
        /\ pre' = fs
        /\ last' = Done(w, [Start EXCEPT !.op = "_maybe_remove_legacy_eth0",
                                         !.path = Eth0Path])
        /\ UNCHANGED ioerr

ReconcileIpv6Default ==
    LET w == DisableIpv6PrivacyExtensions(World(fs), ioerr, TARGET, Ipv6Path)
    IN  /\ Idle
        /\ fs' = w.fs
        /\ pre' = fs
        /\ last' = Done(w, [Start EXCEPT !.op = "_disable_ipv6_privacy_extensions",
                                         !.path = Ipv6Path])
        /\ UNCHANGED ioerr

PatchHooks ==
    LET w == PatchIfupdownIpv6MtuHook(World(fs), ioerr, TARGET)
    IN  /\ Idle
        /\ fs' = w.fs
        /\ pre' = fs
        /\ last' = Done(w, [Start EXCEPT !.op = "_patch_ifupdown_ipv6_mtu_hook"])
        /\ UNCHANGED ioerr

Detect ==
    \E probe \in Probes :
        LET w == DetectPostupAlias(World(fs), probe, TARGET)
        IN  /\ Idle
            /\ fs' = w.fs
            /\ pre' = fs
            /\ last' = Done(w, [Start EXCEPT !.op = "detect_postup_alias",
                                             !.probe = probe, !.detected = w.val])
            /\ UNCHANGED ioerr

CallApplyNet ==
    \E ext \in Exts, target \in Targets, network_state \in StateFiles,
       network_config \in ConfigFiles, postup_alias \in PostupValues :
        LET w == ApplyNet(World(fs), ioerr, ext, target, network_state, network_config,
                          postup_alias)
        IN  /\ Idle
            /\ fs' = w.fs
            /\ pre' = fs
            /\ last' = Done(w, [Start EXCEPT
                                    !.op = "apply_net",
                                    !.neither = ~network_state.some
                                                /\ ~network_config.some,
                                    !.override = postup_alias])
            /\ UNCHANGED ioerr

RunApplyNetMain ==
    \E ext \in Exts, args \in Args, environ \in Environs :
        \E probe \in IF args.postup_alias.some THEN {NoProbe} ELSE Probes :
            LET r == ApplyNetMain(World(fs), ioerr, ext, probe, args, environ)
            IN  /\ Idle
                /\ fs' = r.w.fs
                /\ pre' = fs
                /\ last' = Done(r.w,
                       [Start EXCEPT
                            !.op = "apply_net_main",
                            !.neither =
                                /\ ~Truthy(Override(args.net_state, environ.network_state))
                                /\ ~Truthy(Override(args.net_config,
                                                    environ.network_config)),
                            !.override = IF args.postup_alias.some
                                         THEN ValueAsBoolean(args.postup_alias.val)
                                         ELSE "None",
                            !.probe = probe,
                            !.exit = r.exit, !.inner = r.inner])
                /\ UNCHANGED ioerr

\* the caller goes on: what the finished operation did is forgotten
Return ==
    /\ last.op # "none"
    /\ last' = Start
    /\ pre' = fs
    /\ UNCHANGED <<fs, ioerr>>

Next ==
    \/ ReconcileEth0
    \/ ReconcileIpv6
    \/ PatchHooks
    \/ Detect
    \/ CallApplyNet
    \/ RunApplyNetMain
    \/ Return

NextFiles ==
    \/ ReconcileEth0Default
    \/ ReconcileIpv6Default
    \/ Return

Spec == Init /\ [][Next]_vars

SpecFiles == InitFiles /\ [][NextFiles]_vars

(* ------------------------------ claims -------------------------------- *)

Eth0Op == "_maybe_remove_legacy_eth0"
Ipv6Op == "_disable_ipv6_privacy_extensions"
ReconcileOps == {Eth0Op, Ipv6Op}
CfgOf(op) == IF op = Eth0Op THEN Eth0Cfg ELSE Ipv6Cfg
KnownOf(op) == IF op = Eth0Op THEN Eth0KnownContents ELSE Ipv6KnownContents

\* the calls of the given functions among cs
CallsOf(cs, fns) == {i \in DOMAIN cs : cs[i].fn \in fns}
FileChanges == {"del_file", "write_file"}
FileAccesses == {"exists", "load_file", "del_file", "write_file"}

\* the finished operation was a reconcile call with a relative path on an
\* existing, readable file whose content lines are the known contents
ReconciledMatch(op) ==
    /\ last.op = op
    /\ ~StartsWith(last.path, SEP)
    /\ Exists(pre, CfgOf(op))
    /\ CfgOf(op) \notin ioerr.read
    /\ ContentLines(pre[CfgOf(op)].data) = KnownOf(op)

\* C1: whenever apply_net raised inside apply_net_main (resolution, rendering
\* or hook installation failed) the exit code is not 0, and exit code 0 means
\* that apply_net did not raise.
C1_FailureExitsNonZero ==
    last.op = "apply_net_main" =>
        /\ last.inner # "" => last.exit # 0
        /\ last.exit = 0 => last.inner = ""

\* C2 as stated: after reconciling an existing readable file whose content
\* lines equal the known contents, the eth0 file is gone and the IPv6 privacy
\* file holds exactly the four-line annotation.
C2_MatchRemovedOrAnnotated ==
    /\ ReconciledMatch(Eth0Op) => ~Exists(fs, Eth0Cfg)
    /\ ReconciledMatch(Ipv6Op) =>
           /\ Exists(fs, Ipv6Cfg)
           /\ fs[Ipv6Cfg].data = CurtinContents

\* C2 amended: the same, provided the delete succeeds; when the write of the
\* annotation fails after the delete, no file is left at the path.  When the
\* delete fails the file is left as it was.
C2_MatchRemovedWhenDeleteSucceeds ==
    /\ ReconciledMatch(Eth0Op) =>
           IF Eth0Cfg \in ioerr.del THEN fs = pre ELSE ~Exists(fs, Eth0Cfg)
    /\ ReconciledMatch(Ipv6Op) =>
           IF Ipv6Cfg \in ioerr.del THEN fs = pre
           ELSE IF Ipv6Cfg \in ioerr.write THEN ~Exists(fs, Ipv6Cfg)
           ELSE /\ Exists(fs, Ipv6Cfg)
                /\ fs[Ipv6Cfg].data = CurtinContents
                /\ Len(SplitLines(fs[Ipv6Cfg].data)) = 4
                /\ ContentLines(fs[Ipv6Cfg].data) = <<>>

\* C2 witness: a file holding a comment line and the known directives with
\* blanks around one of them was reconciled and now holds the annotation.
C2_Witness ==
    /\ ReconciledMatch(Ipv6Op)
    /\ SplitLines(pre[Ipv6Cfg].data) # Ipv6KnownContents
    /\ Exists(fs, Ipv6Cfg)
    /\ fs[Ipv6Cfg].data = CurtinContents

\* C3: reconciling an existing file whose content lines differ from the known
\* contents deletes nothing and writes nothing: the target's files are as
\* they were before the call.
C3_MismatchPreserved ==
    \A op \in ReconcileOps :
        (/\ last.op = op
         /\ Exists(pre, CfgOf(op))
         /\ ContentLines(pre[CfgOf(op)].data) # KnownOf(op)) =>
            /\ fs = pre
            /\ CallsOf(last.calls, FileChanges) = {}

\* C3 witness: a file whose second content line alone differs from the known
\* contents was reconciled and is unchanged.
C3_Witness ==
    /\ last.op = Eth0Op
    /\ Exists(pre, Eth0Cfg)
    /\ LET cl == ContentLines(pre[Eth0Cfg].data)
       IN  /\ Len(cl) = 2
           /\ cl[1] = Eth0KnownContents[1]
           /\ cl[2] # Eth0KnownContents[2]
    /\ fs[Eth0Cfg] = pre[Eth0Cfg]

\* C4: reconciling once more after a reconcile call changes no file of the
\* target; in particular a run that finds the file absent, or finds the
\* annotation, deletes nothing and writes nothing.
C4_ReconcileIdempotent ==
    /\ last.op = Eth0Op =>
           LET r == MaybeRemoveLegacyEth0(World(fs), ioerr, TARGET, last.path)
           IN  /\ r.fs = fs
               /\ ~Exists(fs, Eth0Cfg) => CallsOf(r.calls, FileChanges) = {}
    /\ last.op = Ipv6Op =>
           LET r == DisableIpv6PrivacyExtensions(World(fs), ioerr, TARGET, last.path)
           IN  /\ r.fs = fs
               /\ (~Exists(fs, Ipv6Cfg) \/ fs[Ipv6Cfg].data = CurtinContents) =>
                      CallsOf(r.calls, FileChanges) = {}

\* C4 witness: the IPv6 privacy file was reconciled a second time, after it had
\* been annotated, and still holds the annotation.
C4_Witness ==
    /\ last.op = Ipv6Op
    /\ ~StartsWith(last.path, SEP)
    /\ Exists(pre, Ipv6Cfg)
    /\ pre[Ipv6Cfg].data = CurtinContents
    /\ fs = pre

\* the probe returned a complete version record
ProbeSucceeded(probe) == probe.kind = "dict" /\ VersionKeys \subseteq probe.keys

\* C5: detect_postup_alias never raises; it returns True exactly when the
\* probe returned a complete version whose semantic version is below 806, and
\* False otherwise; it changes no file.
C5_DetectNeverRaises ==
    last.op = "detect_postup_alias" =>
        /\ last.exc = ""
        /\ last.detected \in {"True", "False"}
        /\ last.detected = "True" <=>
               (ProbeSucceeded(last.probe) /\ last.probe.sem < IfupdownAliasVersion)
        /\ fs = pre

\* C5 witness: the probe raised and detect_postup_alias returned False.
C5_Witness ==
    /\ last.op = "detect_postup_alias"
    /\ last.probe.kind = "raise"
    /\ last.detected = "False"
    /\ last.exc = ""

\* C6: with neither a state file nor a config, apply_net raises before it
\* resolves, renders, or touches a file of the target, and apply_net_main
\* exits with code 2 before it probes or calls apply_net.
C6_MissingInputFailsFirst ==
    /\ (last.op = "apply_net" /\ last.neither) =>
           /\ last.exc = "Exception"
           /\ CallsOf(last.calls, FileAccesses \cup {"render_network_state",
                          "from_state_file", "parse_net_config"}) = {}
           /\ fs = pre
    /\ (last.op = "apply_net_main" /\ last.neither) =>
           /\ last.exit = 2
           /\ CallsOf(last.calls, FileAccesses \cup {"render_network_state",
                          "apply_net", "get_package_version"}) = {}
           /\ fs = pre

\* C6 witness: apply_net was called with a target holding the known eth0 file
\* and with neither input, and raised.
C6_Witness ==
    /\ last.op = "apply_net"
    /\ last.neither
    /\ last.exc = "Exception"
    /\ Exists(pre, Eth0Cfg)
    /\ ContentLines(pre[Eth0Cfg].data) = Eth0KnownContents

\* C7: the renderer is never given None as the postup-alias flag; it is given
\* the override when one is supplied, and then the version probe is not
\* consulted; otherwise it is given what detect_postup_alias returned.
C7_RendererFlagDecided ==
    last.op \in {"apply_net", "apply_net_main"} =>
        \A i \in CallsOf(last.calls, {"render_network_state"}) :
            /\ last.calls[i].arg # <<"None">>
            /\ last.override # "None" =>
                   /\ last.calls[i].arg = <<last.override>>
                   /\ CallsOf(last.calls, {"detect_postup_alias",
                                           "get_package_version"}) = {}
            /\ last.override = "None" =>
                   /\ CallsOf(last.calls, {"detect_postup_alias"}) # {}
                   /\ last.calls[i].arg =
                          <<DetectPostupAlias(World(pre), last.probe, TARGET).val>>

StageOf(fn) ==
    CASE fn \in {"from_state_file", "parse_net_config"} -> 1
      [] fn = "render_network_state" -> 2
      [] fn = Eth0Op -> 3
      [] fn = Ipv6Op -> 4
      [] fn = "_patch_ifupdown_ipv6_mtu_hook" -> 5
      [] OTHER -> 0

\* the stages of apply_net that a run entered, in the order it entered them
Stages(cs) ==
    LET st == SelectSeq(cs, LAMBDA e : StageOf(e.fn) > 0)
    IN  [i \in 1..Len(st) |-> StageOf(st[i].fn)]

RaisedIn(cs, fns) == \E i \in CallsOf(cs, fns) : cs[i].res = "raised"

HooksInstalled ==
    /\ Exists(fs, PreHookCfg)
    /\ fs[PreHookCfg] = File(IFUPDOWN_IPV6_MTU_PRE_HOOK, HookMode)
    /\ Exists(fs, PostHookCfg)
    /\ fs[PostHookCfg] = File(IFUPDOWN_IPV6_MTU_POST_HOOK, HookMode)

\* C8: apply_net enters its stages in the order resolve, render, reconcile
\* eth0, reconcile IPv6 privacy, install hooks; a failed resolution or
\* rendering ends the run there with no file changed; once rendering has
\* succeeded all three later stages are entered whatever fails while
\* reconciling, and both hooks are installed unless a hook write fails.
C8_StagesInOrder ==
    last.op = "apply_net" =>
        LET st == Stages(last.calls)
        IN  /\ st = [i \in 1..Len(st) |-> i]
            /\ RaisedIn(last.calls, {"from_state_file", "parse_net_config"}) =>
                   Len(st) = 1 /\ last.exc # "" /\ fs = pre
            /\ RaisedIn(last.calls, {"render_network_state"}) =>
                   Len(st) = 2 /\ last.exc # "" /\ fs = pre
            /\ (Len(st) >= 2 /\ ~RaisedIn(last.calls, {"render_network_state"})) =>
                   /\ Len(st) = 5
                   /\ \/ HooksInstalled /\ last.exc = ""
                      \/ \E i \in CallsOf(last.calls, {"write_file"}) :
                             /\ last.calls[i].res = "raised"
                             /\ last.calls[i].arg \in {PreHookCfg, PostHookCfg}

\* C8 witness: apply_net ran while the delete of the known eth0 file failed,
\* and went on to reconcile the IPv6 privacy file and to install both hooks.
C8_Witness ==
    /\ last.op = "apply_net"
    /\ \E i \in CallsOf(last.calls, {"del_file"}) :
           last.calls[i].res = "raised" /\ last.calls[i].arg = Eth0Cfg
    /\ CallsOf(last.calls, {Ipv6Op}) # {}
    /\ HooksInstalled
    /\ last.exc = ""

\* C9: a reconcile call, for either artifact, given a path that starts with
\* '/' raises ValueError before it checks, reads, deletes or writes a file.
C9_AbsolutePathRejected ==
    (last.op \in ReconcileOps /\ StartsWith(last.path, SEP)) =>
        /\ last.exc = "ValueError"
        /\ CallsOf(last.calls, FileAccesses) = {}
        /\ fs = pre

\* content lines as C10 states them: strip every line, then drop the lines
\* that begin with the comment marker
StripThenDiscard(contents) == SelectNonComment(StripEach(SplitLines(contents)))

\* C10: a reconcile call on an existing file deletes it exactly when the lines
\* of the file, first stripped and then without those that begin with '#',
\* are the known contents.
C10_StripBeforeDiscard ==
    \A op \in ReconcileOps :
        (last.op = op /\ Exists(pre, CfgOf(op))) =>
            (CallsOf(last.calls, {"del_file"}) # {}) <=>
                (StripThenDiscard(pre[CfgOf(op)].data) = KnownOf(op))

====
